---- MODULE Spec2Model ----
(***************************************************************************)
(* Model of weather.service.dtss.DtssHost: the registry of data collection *)
(* repositories built by the constructor, the start/stop lifecycle of the  *)
(* DtsServer, and the read and find callbacks that route url identifiers   *)
(* to the repository named by the url scheme.                              *)
(*                                                                         *)
(* Strings that the code parses are sequences of one-character strings.    *)
(***************************************************************************)
EXTENDS Integers, Sequences, FiniteSets, TLC

VARIABLES
    data_collection_repositories, \* the items the constructor iterates over
    dtss_port_num,                \* self.dtss_port_num
    repos,                        \* self.repos: scheme name -> repository instance
    dtss,                         \* self.dtss: None or a reference to a DtsServer
    servers,                      \* the DtsServer objects alive: reference -> object
    lastCall,                     \* the last lifecycle call and the message it logged
    call,                         \* the callback invocation being answered, if any
    frames,                       \* the callbacks running side by side, step by step
    threads                       \* the threads calling start and stop, step by step

vars == <<data_collection_repositories, dtss_port_num, repos, dtss, servers,
          lastCall, call, frames, threads>>

----------------------------------------------------------------------------
(* Bounds *)

\* Longest batch of identifiers handed to read_callback.
MaxBatch == 3

----------------------------------------------------------------------------
(* Python values *)

\* None, where a sequence, a record or a period could stand.
None == << >>

Range(s) == {s[i] : i \in 1..Len(s)}

\* The characters urllib.parse accepts in a scheme.
scheme_chars ==
    {"a","b","c","d","e","f","g","h","i","j","k","l","m","n","o","p","q","r",
     "s","t","u","v","w","x","y","z",
     "A","B","C","D","E","F","G","H","I","J","K","L","M","N","O","P","Q","R",
     "S","T","U","V","W","X","Y","Z",
     "0","1","2","3","4","5","6","7","8","9","+","-","."}

upper_to_lower ==
    [c \in {"A","B","C","D","E","F","G","H","I","J","K","L","M","N","O","P","Q",
            "R","S","T","U","V","W","X","Y","Z"} |->
        CASE c = "A" -> "a" [] c = "B" -> "b" [] c = "C" -> "c" [] c = "D" -> "d"
          [] c = "E" -> "e" [] c = "F" -> "f" [] c = "G" -> "g" [] c = "H" -> "h"
          [] c = "I" -> "i" [] c = "J" -> "j" [] c = "K" -> "k" [] c = "L" -> "l"
          [] c = "M" -> "m" [] c = "N" -> "n" [] c = "O" -> "o" [] c = "P" -> "p"
          [] c = "Q" -> "q" [] c = "R" -> "r" [] c = "S" -> "s" [] c = "T" -> "t"
          [] c = "U" -> "u" [] c = "V" -> "v" [] c = "W" -> "w" [] c = "X" -> "x"
          [] c = "Y" -> "y" [] c = "Z" -> "z"]

\* str.lower()
lower(s) ==
    [i \in 1..Len(s) |->
        IF s[i] \in DOMAIN upper_to_lower THEN upper_to_lower[s[i]] ELSE s[i]]

\* str.find(':') counted from 1; 0 when the string holds no ':'.
find_colon(url) ==
    IF \E i \in 1..Len(url) : url[i] = ":"
    THEN CHOOSE i \in 1..Len(url) :
            /\ url[i] = ":"
            /\ \A j \in 1..(i - 1) : url[j] # ":"
    ELSE 0

\* urllib.parse.urlparse(url).scheme: the text before the first ':' in lower
\* case when that text is not empty and made of scheme characters, else ''.
\* (Interpreter versions differ only on urls whose text after the ':' is empty
\* or all digits; no identifier below is of that shape.)
urlparse_scheme(url) ==
    LET i == find_colon(url)
    IN  IF i > 1 /\ \A j \in 1..(i - 1) : url[j] \in scheme_chars
        THEN lower(SubSeq(url, 1, i - 1))
        ELSE <<>>

----------------------------------------------------------------------------
(* Repository types *)

\* The name attribute of the three repository classes.
NetatmoName == <<"n","e","t","a","t","m","o">>
Mock1Name == <<"m","o","c","k","1">>
Mock2Name == <<"m","o","c","k","2">>

_DEFAULT_DATA_COLLECTION_REPO_TYPES ==
    << [cls |-> "NetatmoRepository", name |-> NetatmoName],
       [cls |-> "MockRepository1", name |-> Mock1Name],
       [cls |-> "MockRepository2", name |-> Mock2Name] >>

\* A dict display {key(x): value(x) for x in items}: a later item replaces an
\* earlier one that has the same key.
RECURSIVE dict_of(_, _)
dict_of(items, n) ==
    IF n = 0 THEN << >>
    ELSE LET d == dict_of(items, n - 1)
             k == items[n][1]
             v == items[n][2]
         IN  [x \in (DOMAIN d) \cup {k} |-> IF x = k THEN v ELSE d[x]]

_DEFAULT_DATA_COLLECTION_REPO_TYPE_LOOKUP ==
    LET types == _DEFAULT_DATA_COLLECTION_REPO_TYPES
    IN  dict_of([i \in 1..Len(types) |-> <<types[i].name, types[i]>>], Len(types))

\* Calling a repository class with a configuration: the instance made.
new_repository(type, config) == [cls |-> type.cls, name |-> type.name, config |-> config]

\* As known_items, giving up at the first name that is no repository type.
RECURSIVE known_items_until_unknown(_)
known_items_until_unknown(items) ==
    IF items = << >> THEN << >>
    ELSE IF Head(items)[1] \in DOMAIN _DEFAULT_DATA_COLLECTION_REPO_TYPE_LOOKUP
         THEN <<Head(items)>> \o known_items_until_unknown(Tail(items))
         ELSE << >>

\* Keep the items whose name is a known repository type (the `if` of the display).
RECURSIVE known_items(_)
known_items(items) ==
    IF items = << >> THEN << >>
    ELSE LET rest == known_items(Tail(items))
             name == Head(items)[1]
         IN  IF name \in DOMAIN _DEFAULT_DATA_COLLECTION_REPO_TYPE_LOOKUP
             THEN <<Head(items)>> \o rest
             ELSE rest

\* DtssHost.__init__: self.repos.
build_repos(items) ==
    LET kept == known_items(items)
        made == [i \in 1..Len(kept) |->
                    <<kept[i][1],
                      new_repository(_DEFAULT_DATA_COLLECTION_REPO_TYPE_LOOKUP[kept[i][1]],
                                     kept[i][2])>>]
    IN  dict_of(made, Len(made))

----------------------------------------------------------------------------
(* Inputs *)

OtherName == <<"o","t","h","e","r">>

\* Configurations handed to the constructor, as the (name, config) items that
\* data_collection_repositories.items() yields: those of a dict, which holds a
\* name once.
Configurations ==
    { << >>,
      << <<Mock1Name, "cfgA">>, <<Mock2Name, "cfgA">> >>,
      << <<NetatmoName, "cfgA">>, <<OtherName, "cfgA">>, <<Mock1Name, "cfgB">> >>,
      << <<Mock2Name, "cfgA">>, <<NetatmoName, "cfgA">>, <<Mock1Name, "cfgA">> >> }

\* Items of a mapping that yields a name twice.
RepeatingConfigurations ==
    { << <<Mock1Name, "cfgA">>, <<Mock1Name, "cfgB">> >>,
      << <<Mock2Name, "cfgA">>, <<Mock1Name, "cfgA">>, <<Mock2Name, "cfgB">> >> }

Ports == {20000}

\* Identifiers and queries the callbacks are called with.
Urls ==
    { Mock1Name \o <<":","x">>,
      <<"M","o","c","k","1",":","z">>,
      Mock2Name \o <<":","y">>,
      NetatmoName \o <<":","t">>,
      <<"n","o","p","e",":","x">>,
      <<"b","o","g","u","s">> }

RECURSIVE SeqsUpTo(_, _)
SeqsUpTo(S, n) ==
    IF n = 0 THEN {<< >>}
    ELSE LET shorter == SeqsUpTo(S, n - 1)
         IN  shorter \cup {Append(s, x) : s \in {t \in shorter : Len(t) = n - 1}, x \in S}

Batches == SeqsUpTo(Urls, MaxBatch)

\* Read periods: (start, end) in epoch seconds.
Periods == {<<100, 200>>, <<0, 50>>}

----------------------------------------------------------------------------
(* Exceptions *)

\* No exception.
NoError == [type |-> "none", scheme |-> << >>, available |-> {}]

\* DtssHostError(f'ts_id scheme {scheme} does not match any that are
\* available for the DtssHost: {", ".join(self.repos)}').
DtssHostError(scheme, available) ==
    [type |-> "DtssHostError", scheme |-> scheme, available |-> available]

\* The exception a failing repository call raises.
RepositoryError == [type |-> "RepositoryError", scheme |-> << >>, available |-> {}]

\* self.repos[repo_name] with repo_name not a key.
KeyError(key) == [type |-> "KeyError", scheme |-> key, available |-> {}]

\* data[repo_name][index] with index beyond the list.
IndexError == [type |-> "IndexError", scheme |-> << >>, available |-> {}]

----------------------------------------------------------------------------
(* Repositories: the two methods the host calls on a repository *)

\* How the repositories answer during one call: all as their interface says,
\* or one of them raising or returning one time series too few or too many.
NoFault == [repo |-> << >>, kind |-> "ok"]

Faults(rp) ==
    {NoFault} \cup [repo : DOMAIN rp, kind : {"raises", "short", "long"}]

\* The time series a repository produces for the index-th identifier it is given.
TimeSeries(repo, ts_id, index, read_period) ==
    [repo |-> repo, ts_id |-> ts_id, index |-> index, read_period |-> read_period]

\* DataCollectionRepository.read_callback(ts_ids, read_period).
repo_read_callback(repo, ts_ids, read_period, fault) ==
    LET kind == IF fault.repo = repo.name THEN fault.kind ELSE "ok"
        tsvec == [k \in 1..Len(ts_ids) |->
                    TimeSeries(repo, ts_ids[k], k - 1, read_period)]
    IN  CASE kind = "raises" -> [raised |-> TRUE, value |-> << >>]
          [] kind = "short" ->
                [raised |-> FALSE,
                 value |-> IF tsvec = << >> THEN tsvec
                           ELSE SubSeq(tsvec, 1, Len(tsvec) - 1)]
          [] kind = "long" ->
                [raised |-> FALSE,
                 value |-> Append(tsvec, TimeSeries(repo, << >>, Len(ts_ids), read_period))]
          [] OTHER -> [raised |-> FALSE, value |-> tsvec]

\* DataCollectionRepository.find_callback(query): the TsInfoVector found.
repo_find_callback(repo, query, fault) ==
    IF fault.repo = repo.name /\ fault.kind = "raises"
    THEN [raised |-> TRUE, value |-> << >>]
    ELSE [raised |-> FALSE, value |-> << [repo |-> repo, name |-> query] >>]

\* One call of a repository method, as the host makes it.
Invocation(repo, method, ts_ids, query, read_period) ==
    [repo |-> repo, method |-> method, ts_ids |-> ts_ids, query |-> query,
     read_period |-> read_period]

----------------------------------------------------------------------------
(* DtssHost.get_repo_name_from_url *)

\* As get_repo_name_from_url, with the test `if parsed.scheme and parsed.scheme
\* not in self.repos`: a url without a scheme is let through.
get_repo_name_unless_empty(rp, url) ==
    LET scheme == urlparse_scheme(url)
    IN  IF scheme # << >> /\ scheme \notin DOMAIN rp
        THEN [error |-> DtssHostError(scheme, DOMAIN rp), name |-> << >>]
        ELSE [error |-> NoError, name |-> scheme]

\* As get_repo_name_from_url, with the message listing the repository types
\* the module knows instead of the keys of self.repos.
get_repo_name_listing_types(rp, url) ==
    LET scheme == urlparse_scheme(url)
    IN  IF scheme \notin DOMAIN rp
        THEN [error |-> DtssHostError(scheme, DOMAIN _DEFAULT_DATA_COLLECTION_REPO_TYPE_LOOKUP),
              name |-> << >>]
        ELSE [error |-> NoError, name |-> scheme]

get_repo_name_from_url(rp, url) ==
    LET scheme == urlparse_scheme(url)
    IN  IF scheme \notin DOMAIN rp
        THEN [error |-> DtssHostError(scheme, DOMAIN rp), name |-> << >>]
        ELSE [error |-> NoError, name |-> scheme]

----------------------------------------------------------------------------
(* DtssHost.read_callback *)

\* data is a dict, which keeps its keys in the order they were first set: a
\* sequence of entries [name, items].
key_index(data, repo_name) ==
    IF \E k \in 1..Len(data) : data[k].name = repo_name
    THEN CHOOSE k \in 1..Len(data) : data[k].name = repo_name
    ELSE 0

\* As group_append, with a list of its own for every identifier.
group_append_always_new(data, enum, ts_id, repo_name) ==
    Append(data, [name |-> repo_name,
                  items |-> << [enum |-> enum, ts_id |-> ts_id, ts |-> None] >>])

\* As group_append, with data[repo_name].insert(0, ...) for append.
group_append_in_front(data, enum, ts_id, repo_name) ==
    LET with_key == IF key_index(data, repo_name) = 0
                    THEN Append(data, [name |-> repo_name, items |-> << >>])
                    ELSE data
        k == key_index(with_key, repo_name)
    IN  [with_key EXCEPT ![k].items =
            << [enum |-> enum, ts_id |-> ts_id, ts |-> None] >> \o @]

\* The body of the grouping loop for one identifier.
group_append(data, enum, ts_id, repo_name) ==
    LET with_key == IF key_index(data, repo_name) = 0
                    THEN Append(data, [name |-> repo_name, items |-> << >>])
                    ELSE data
        k == key_index(with_key, repo_name)
    IN  [with_key EXCEPT ![k].items =
            Append(@, [enum |-> enum, ts_id |-> ts_id, ts |-> None])]

\* As group_by_repo, with the exception caught and the identifier left out.
RECURSIVE group_by_repo_skipping(_, _, _)
group_by_repo_skipping(rp, ts_ids, n) ==
    IF n = 0 THEN [error |-> NoError, data |-> << >>]
    ELSE LET before == group_by_repo_skipping(rp, ts_ids, n - 1)
             found == get_repo_name_from_url(rp, ts_ids[n])
         IN  IF found.error # NoError THEN before
             ELSE [error |-> NoError,
                   data |-> group_append(before.data, n - 1, ts_ids[n], found.name)]

\* The grouping loop over the first n identifiers; it ends at the first
\* identifier whose scheme is not a key of self.repos.
RECURSIVE group_by_repo(_, _, _)
group_by_repo(rp, ts_ids, n) ==
    IF n = 0 THEN [error |-> NoError, data |-> << >>]
    ELSE LET before == group_by_repo(rp, ts_ids, n - 1)
             found == get_repo_name_from_url(rp, ts_ids[n])
         IN  IF before.error # NoError THEN before
             ELSE IF found.error # NoError
                  THEN [error |-> found.error, data |-> before.data]
                  ELSE [error |-> NoError,
                        data |-> group_append(before.data, n - 1, ts_ids[n], found.name)]

\* for index, ts in enumerate(tsvec): data[repo_name][index]['ts'] = ts
store_tsvec(items, tsvec) ==
    [error |-> IF Len(tsvec) > Len(items) THEN IndexError ELSE NoError,
     items |-> [k \in 1..Len(items) |->
                    IF k <= Len(tsvec) THEN [items[k] EXCEPT !.ts = tsvec[k]]
                    ELSE items[k]]]

\* As read_repo, with the repository's exception caught and nothing stored.
read_repo_swallowing(rp, data, k, read_period, fault) ==
    LET repo_name == data[k].name
        ts_ids == [j \in 1..Len(data[k].items) |-> data[k].items[j].ts_id]
    IN  IF repo_name \notin DOMAIN rp
        THEN [error |-> KeyError(repo_name), data |-> data, invocations |-> << >>]
        ELSE LET answer == repo_read_callback(rp[repo_name], ts_ids, read_period, fault)
                 made == << Invocation(rp[repo_name], "read_callback", ts_ids, None,
                                       read_period) >>
                 stored == store_tsvec(data[k].items, answer.value)
             IN  [error |-> IF answer.raised THEN NoError ELSE stored.error,
                  data |-> [data EXCEPT ![k].items = stored.items],
                  invocations |-> made]

\* The body of the reading loop for the k-th key of data.
read_repo(rp, data, k, read_period, fault) ==
    LET repo_name == data[k].name
        ts_ids == [j \in 1..Len(data[k].items) |-> data[k].items[j].ts_id]
    IN  IF repo_name \notin DOMAIN rp
        THEN [error |-> KeyError(repo_name), data |-> data, invocations |-> << >>]
        ELSE LET answer == repo_read_callback(rp[repo_name], ts_ids, read_period, fault)
                 made == << Invocation(rp[repo_name], "read_callback", ts_ids, None,
                                       read_period) >>
                 stored == store_tsvec(data[k].items, answer.value)
             IN  IF answer.raised
                 THEN [error |-> RepositoryError, data |-> data, invocations |-> made]
                 ELSE [error |-> stored.error,
                       data |-> [data EXCEPT ![k].items = stored.items],
                       invocations |-> made]

\* The reading loop over the first n keys of data; it ends at the first exception.
RECURSIVE read_repos(_, _, _, _, _)
read_repos(rp, data, n, read_period, fault) ==
    IF n = 0 THEN [error |-> NoError, data |-> data, invocations |-> << >>]
    ELSE LET before == read_repos(rp, data, n - 1, read_period, fault)
             this == read_repo(rp, before.data, n, read_period, fault)
         IN  IF before.error # NoError THEN before
             ELSE [error |-> this.error, data |-> this.data,
                   invocations |-> before.invocations \o this.invocations]

\* transpose_data: the lists of data.values(), one after the other.
RECURSIVE transpose(_, _)
transpose(data, n) ==
    IF n = 0 THEN << >> ELSE transpose(data, n - 1) \o data[n].items

\* As sorted_by_enum, without the sort.
unsorted(items) == items

\* Insert an item into a list sorted by 'enum', after the items of equal key.
RECURSIVE insert_by_enum(_, _)
insert_by_enum(sorted_items, item) ==
    IF sorted_items = << >> THEN <<item>>
    ELSE IF item.enum < Head(sorted_items).enum
         THEN <<item>> \o sorted_items
         ELSE <<Head(sorted_items)>> \o insert_by_enum(Tail(sorted_items), item)

\* sorted(transpose_data, key=lambda item: item['enum'])
RECURSIVE sorted_by_enum(_)
sorted_by_enum(items) ==
    IF items = << >> THEN << >>
    ELSE insert_by_enum(sorted_by_enum(SubSeq(items, 1, Len(items) - 1)),
                        items[Len(items)])

\* What a callback does: the exception it raises or the value it returns, and
\* the repository calls it made on the way.
Outcome(error, value, invocations) ==
    [error |-> error, returned |-> error = NoError, value |-> value,
     invocations |-> invocations]

read_callback(rp, ts_ids, read_period, fault) ==
    LET grouped == group_by_repo(rp, ts_ids, Len(ts_ids))
        read == read_repos(rp, grouped.data, Len(grouped.data), read_period, fault)
        sort == sorted_by_enum(transpose(read.data, Len(read.data)))
    IN  IF grouped.error # NoError THEN Outcome(grouped.error, None, << >>)
        ELSE IF read.error # NoError THEN Outcome(read.error, None, read.invocations)
        ELSE Outcome(NoError, [i \in 1..Len(sort) |-> sort[i].ts], read.invocations)

\* The orders in which the n keys of data can be gone through.
Orders(n) ==
    {order \in [1..n -> 1..n] : \A a, b \in 1..n : order[a] = order[b] => a = b}

\* read_callback with the keys of data gone through in the given order, in the
\* reading loop and in data.values(): the k-th repository asked, and
\* answering, is the one of the order[k]-th key.
read_in_order(rp, ts_ids, read_period, fault, order) ==
    LET grouped == group_by_repo(rp, ts_ids, Len(ts_ids))
        data == [k \in 1..Len(grouped.data) |-> grouped.data[order[k]]]
        read == read_repos(rp, data, Len(data), read_period, fault)
        sort == sorted_by_enum(transpose(read.data, Len(read.data)))
    IN  IF grouped.error # NoError THEN Outcome(grouped.error, None, << >>)
        ELSE IF read.error # NoError THEN Outcome(read.error, None, read.invocations)
        ELSE Outcome(NoError, [i \in 1..Len(sort) |-> sort[i].ts], read.invocations)

----------------------------------------------------------------------------
(* DtssHost.find_callback *)

\* As find_callback, asking a repository whatever the scheme of the query.
find_callback_any_repo(rp, query, fault) ==
    LET found == get_repo_name_from_url(rp, query)
        name == CHOOSE n \in DOMAIN rp : TRUE
    IN  IF found.error # NoError THEN Outcome(found.error, None, << >>)
        ELSE LET answer == repo_find_callback(rp[name], query, fault)
                 made == << Invocation(rp[name], "find_callback", << >>, query, None) >>
             IN  IF answer.raised THEN Outcome(RepositoryError, None, made)
                 ELSE Outcome(NoError, answer.value, made)

\* As find_callback, with self.repos indexed by the parsed scheme directly.
find_callback_unchecked(rp, query, fault) ==
    LET name == urlparse_scheme(query)
    IN  IF name \notin DOMAIN rp
        THEN Outcome(KeyError(name), None, << >>)
        ELSE LET answer == repo_find_callback(rp[name], query, fault)
                 made == << Invocation(rp[name], "find_callback", << >>, query, None) >>
             IN  IF answer.raised THEN Outcome(RepositoryError, None, made)
                 ELSE Outcome(NoError, answer.value, made)

find_callback(rp, query, fault) ==
    LET found == get_repo_name_from_url(rp, query)
    IN  IF found.error # NoError THEN Outcome(found.error, None, << >>)
        ELSE IF found.name \notin DOMAIN rp
             THEN Outcome(KeyError(found.name), None, << >>)
             ELSE LET answer == repo_find_callback(rp[found.name], query, fault)
                      made == << Invocation(rp[found.name], "find_callback", << >>,
                                            query, None) >>
                  IN  IF answer.raised THEN Outcome(RepositoryError, None, made)
                      ELSE Outcome(NoError, answer.value, made)

----------------------------------------------------------------------------
(* The DtsServer and the lifecycle of the host *)

\* self.dtss = None
NoServer == 0

\* DtsServer(): a server that listens nowhere and has no callback bound.
DtsServer == [port |-> 0, auto_cache |-> FALSE, cb |-> "None", find_cb |-> "None",
              listening |-> FALSE]

\* As make_server, without dtss.cb = self.read_callback.
make_server_unbound(port) ==
    [DtsServer EXCEPT !.port = port, !.auto_cache = TRUE]

\* DtssHost.make_server
make_server(port) ==
    [DtsServer EXCEPT !.port = port, !.auto_cache = TRUE, !.cb = "read_callback"]

\* The reference a newly made object gets.
new_ref(objects) == CHOOSE r \in 1..(Cardinality(DOMAIN objects) + 1) : r \notin DOMAIN objects

\* A host holds a running server when self.dtss refers to a listening server.
Running == dtss # NoServer /\ dtss \in DOMAIN servers /\ servers[dtss].listening

Listeners == {r \in DOMAIN servers : servers[r].listening}

Idle == [op |-> "idle", ts_ids |-> << >>, read_period |-> None, query |-> << >>,
         fault |-> NoFault, outcome |-> Outcome(NoError, None, << >>)]

\* The callers whose callbacks run side by side, and what each callback holds:
\* where it is, its arguments, its local variables (enum, data, repo_name), the
\* number of keys of data gone through, the repository calls made so far and
\* what it raised or returned.
Callers == {"c1", "c2"}

IdleFrame ==
    [pc |-> "idle", op |-> "idle", ts_ids |-> << >>, read_period |-> None,
     query |-> << >>, fault |-> NoFault, enum |-> 0, data |-> << >>, asked |-> 0,
     repo_name |-> << >>, invocations |-> << >>,
     outcome |-> Outcome(NoError, None, << >>)]

\* The threads that call start and stop, and what each holds: where it is in
\* which method, the server it made and has not yet assigned, what it logged
\* and what it raised.
Threads == {"t1", "t2"}

IdleThread == [pc |-> "idle", op |-> "none", made |-> NoServer, log |-> "none",
               error |-> "none"]

\* DtssHost.__init__
construct(items) ==
    /\ data_collection_repositories = items
    /\ dtss_port_num \in Ports
    /\ repos = build_repos(items)
    /\ dtss = NoServer
    /\ servers = << >>
    /\ lastCall = [op |-> "none", log |-> "none"]
    /\ call = Idle
    /\ frames = [c \in Callers |-> IdleFrame]
    /\ threads = [t \in Threads |-> IdleThread]

Init == \E items \in Configurations : construct(items)

\* Construction from any items, those that repeat a name too.
InitAnyItems ==
    \E items \in Configurations \cup RepeatingConfigurations : construct(items)

\* As start, without the test of self.dtss: the server self.dtss referred to
\* keeps listening.
start_unguarded ==
    /\ LET ref == new_ref(servers)
           made == make_server(dtss_port_num)
       IN  /\ lastCall' = [op |-> "start", log |-> "start"]
           /\ dtss' = ref
           /\ servers' = [r \in DOMAIN servers \cup {ref} |->
                            IF r = ref THEN [made EXCEPT !.listening = TRUE]
                            ELSE servers[r]]
    /\ UNCHANGED <<data_collection_repositories, dtss_port_num, repos, call, frames, threads>>

\* DtssHost.start
start ==
    /\ IF dtss # NoServer
       THEN /\ lastCall' = [op |-> "start", log |-> "already running"]
            /\ UNCHANGED <<dtss, servers>>
       ELSE LET ref == new_ref(servers)
                made == make_server(dtss_port_num)
            IN  /\ lastCall' = [op |-> "start", log |-> "start"]
                /\ dtss' = ref
                /\ servers' = [r \in DOMAIN servers \cup {ref} |->
                                 IF r = ref THEN [made EXCEPT !.listening = TRUE]
                                 ELSE servers[r]]
    /\ UNCHANGED <<data_collection_repositories, dtss_port_num, repos, call, frames, threads>>

\* DtssHost.stop: the server is cleared and, no longer referred to, deleted.
stop ==
    /\ IF dtss = NoServer
       THEN /\ lastCall' = [op |-> "stop", log |-> "not running"]
            /\ UNCHANGED <<dtss, servers>>
       ELSE /\ lastCall' = [op |-> "stop", log |-> "stop"]
            /\ servers' = [r \in DOMAIN servers \ {dtss} |-> servers[r]]
            /\ dtss' = NoServer
    /\ UNCHANGED <<data_collection_repositories, dtss_port_num, repos, call, frames, threads>>

\* As Read, with a repository made and registered on the fly when the scheme
\* that is not registered is the name of a repository type.
Read_registering ==
    /\ call = Idle
    /\ \E ts_ids \in Batches, read_period \in Periods, fault \in Faults(repos) :
          LET outcome == read_callback(repos, ts_ids, read_period, fault)
              scheme == outcome.error.scheme
          IN  /\ call' = [op |-> "read", ts_ids |-> ts_ids, read_period |-> read_period,
                          query |-> << >>, fault |-> fault, outcome |-> outcome]
              /\ repos' =
                    IF /\ outcome.error.type = "DtssHostError"
                       /\ scheme \in DOMAIN _DEFAULT_DATA_COLLECTION_REPO_TYPE_LOOKUP
                    THEN [name \in DOMAIN repos \cup {scheme} |->
                            IF name = scheme
                            THEN new_repository(
                                    _DEFAULT_DATA_COLLECTION_REPO_TYPE_LOOKUP[scheme], "cfgA")
                            ELSE repos[name]]
                    ELSE repos
    /\ UNCHANGED <<data_collection_repositories, dtss_port_num, dtss, servers,
                   lastCall, frames, threads>>

\* A read request: the DtsServer calls DtssHost.read_callback.
Read ==
    /\ call = Idle
    /\ \E ts_ids \in Batches, read_period \in Periods, fault \in Faults(repos) :
          call' = [op |-> "read", ts_ids |-> ts_ids, read_period |-> read_period,
                   query |-> << >>, fault |-> fault,
                   outcome |-> read_callback(repos, ts_ids, read_period, fault)]
    /\ UNCHANGED <<data_collection_repositories, dtss_port_num, repos, dtss, servers,
                   lastCall, frames, threads>>

\* A find request: DtssHost.find_callback is called.
Find ==
    /\ call = Idle
    /\ \E query \in Urls, fault \in Faults(repos) :
          /\ fault.kind \in {"ok", "raises"}
          /\ call' = [op |-> "find", ts_ids |-> << >>, read_period |-> None,
                      query |-> query, fault |-> fault,
                      outcome |-> find_callback(repos, query, fault)]
    /\ UNCHANGED <<data_collection_repositories, dtss_port_num, repos, dtss, servers,
                   lastCall, frames, threads>>

\* The caller has the answer; what the call built is dropped.
Return ==
    /\ call # Idle
    /\ call' = Idle
    /\ UNCHANGED <<data_collection_repositories, dtss_port_num, repos, dtss, servers,
                   lastCall, frames, threads>>

Next == start \/ stop \/ Read \/ Find \/ Return

Spec == Init /\ [][Next]_vars

SpecAnyItems == InitAnyItems /\ [][Next]_vars

----------------------------------------------------------------------------
(* Callbacks side by side: DtssHost.read_callback and find_callback run by    *)
(* several callers at once, one loop iteration or statement at a time        *)

\* Longest batch of a read that runs beside another callback.
MaxCallBatch == 2

CallConfigurations ==
    { << <<Mock1Name, "cfgA">>, <<Mock2Name, "cfgA">> >>,
      << <<NetatmoName, "cfgA">>, <<OtherName, "cfgA">>, <<Mock1Name, "cfgB">> >> }

CallUrls ==
    { Mock1Name \o <<":","x">>,
      Mock2Name \o <<":","y">>,
      <<"b","o","g","u","s">> }

CallBatches == SeqsUpTo(CallUrls, MaxCallBatch)

CallPeriods == {<<100, 200>>}

CallFaults(rp) == {NoFault} \cup [repo : DOMAIN rp, kind : {"raises"}]

InitCalls == \E items \in CallConfigurations : construct(items)

\* A callback that raised or returned.
finished(frame, outcome) == [frame EXCEPT !.pc = "done", !.outcome = outcome]

\* As group_step, with the repository asked for each identifier as soon as it
\* is resolved.
group_step_asking(frame, rp) ==
    IF frame.enum = Len(frame.ts_ids) THEN [frame EXCEPT !.pc = "read"]
    ELSE LET ts_id == frame.ts_ids[frame.enum + 1]
             found == get_repo_name_from_url(rp, ts_id)
         IN  IF found.error # NoError
             THEN finished(frame, Outcome(found.error, None, frame.invocations))
             ELSE [frame EXCEPT
                     !.data = group_append(@, frame.enum, ts_id, found.name),
                     !.enum = @ + 1,
                     !.invocations =
                        Append(@, Invocation(rp[found.name], "read_callback", <<ts_id>>,
                                             None, frame.read_period))]

\* One turn of the grouping loop (dtss.py:113-117), or its end.
group_step(frame, rp) ==
    IF frame.enum = Len(frame.ts_ids) THEN [frame EXCEPT !.pc = "read"]
    ELSE LET ts_id == frame.ts_ids[frame.enum + 1]
             found == get_repo_name_from_url(rp, ts_id)
         IN  IF found.error # NoError
             THEN finished(frame, Outcome(found.error, None, frame.invocations))
             ELSE [frame EXCEPT
                     !.data = group_append(@, frame.enum, ts_id, found.name),
                     !.enum = @ + 1]

\* One turn of the reading loop (dtss.py:119-124), or its end.
read_step(frame, rp) ==
    IF frame.asked = Len(frame.data) THEN [frame EXCEPT !.pc = "sort"]
    ELSE LET read == read_repo(rp, frame.data, frame.asked + 1, frame.read_period,
                               frame.fault)
             made == frame.invocations \o read.invocations
         IN  IF read.error # NoError
             THEN finished([frame EXCEPT !.invocations = made],
                           Outcome(read.error, None, made))
             ELSE [frame EXCEPT !.data = read.data, !.asked = @ + 1,
                                !.invocations = made]

\* Flatten, sort and return (dtss.py:127-132).
sort_step(frame) ==
    LET sort == sorted_by_enum(transpose(frame.data, Len(frame.data)))
    IN  finished(frame, Outcome(NoError, [i \in 1..Len(sort) |-> sort[i].ts],
                                frame.invocations))

\* find_callback: repo_name = self.get_repo_name_from_url(query) (dtss.py:136).
resolve_step(frame, rp) ==
    LET found == get_repo_name_from_url(rp, frame.query)
    IN  IF found.error # NoError
        THEN finished(frame, Outcome(found.error, None, << >>))
        ELSE [frame EXCEPT !.pc = "ask", !.repo_name = found.name]

\* find_callback: return self.repos[repo_name].find_callback(query=query)
\* (dtss.py:137).
ask_step(frame, rp) ==
    IF frame.repo_name \notin DOMAIN rp
    THEN finished(frame, Outcome(KeyError(frame.repo_name), None, << >>))
    ELSE LET answer == repo_find_callback(rp[frame.repo_name], frame.query, frame.fault)
             made == << Invocation(rp[frame.repo_name], "find_callback", << >>,
                                   frame.query, None) >>
         IN  IF answer.raised
             THEN finished([frame EXCEPT !.invocations = made],
                           Outcome(RepositoryError, None, made))
             ELSE finished([frame EXCEPT !.invocations = made],
                           Outcome(NoError, answer.value, made))

only_frames ==
    UNCHANGED <<data_collection_repositories, dtss_port_num, repos, dtss, servers,
                lastCall, call, threads>>

\* The DtsServer calls read_callback for caller c: data = dict().
AcceptRead(c) ==
    /\ frames[c].pc = "idle"
    /\ \E ts_ids \in CallBatches, read_period \in CallPeriods, fault \in CallFaults(repos) :
          frames' = [frames EXCEPT ![c] =
                        [IdleFrame EXCEPT !.pc = "group", !.op = "read",
                                          !.ts_ids = ts_ids,
                                          !.read_period = read_period,
                                          !.fault = fault]]
    /\ only_frames

\* find_callback is called for caller c.
AcceptFind(c) ==
    /\ frames[c].pc = "idle"
    /\ \E query \in CallUrls, fault \in CallFaults(repos) :
          frames' = [frames EXCEPT ![c] =
                        [IdleFrame EXCEPT !.pc = "resolve", !.op = "find",
                                          !.query = query, !.fault = fault]]
    /\ only_frames

\* As GroupStep, with data an attribute of the host (self.data), which every
\* read under way works on.
GroupStepShared(c) ==
    /\ frames[c].pc = "group"
    /\ LET mine == group_step(frames[c], repos)
       IN  frames' = [d \in Callers |->
                        IF d = c THEN mine
                        ELSE IF frames[d].pc \in {"group", "read"} /\ mine.pc = "group"
                             THEN [frames[d] EXCEPT !.data = mine.data]
                             ELSE frames[d]]
    /\ only_frames

GroupStep(c) ==
    /\ frames[c].pc = "group"
    /\ frames' = [frames EXCEPT ![c] = group_step(frames[c], repos)]
    /\ only_frames

ReadStep(c) ==
    /\ frames[c].pc = "read"
    /\ frames' = [frames EXCEPT ![c] = read_step(frames[c], repos)]
    /\ only_frames

SortStep(c) ==
    /\ frames[c].pc = "sort"
    /\ frames' = [frames EXCEPT ![c] = sort_step(frames[c])]
    /\ only_frames

ResolveStep(c) ==
    /\ frames[c].pc = "resolve"
    /\ frames' = [frames EXCEPT ![c] = resolve_step(frames[c], repos)]
    /\ only_frames

AskStep(c) ==
    /\ frames[c].pc = "ask"
    /\ frames' = [frames EXCEPT ![c] = ask_step(frames[c], repos)]
    /\ only_frames

\* The caller has the answer; the locals of the callback are dropped.
Reply(c) ==
    /\ frames[c].pc = "done"
    /\ frames' = [frames EXCEPT ![c] = IdleFrame]
    /\ only_frames

NextCalls ==
    \E c \in Callers :
        \/ AcceptRead(c) \/ AcceptFind(c) \/ GroupStep(c) \/ ReadStep(c)
        \/ SortStep(c) \/ ResolveStep(c) \/ AskStep(c) \/ Reply(c)

SpecCalls == InitCalls /\ [][NextCalls]_vars

----------------------------------------------------------------------------
(* start and stop called from several threads, statement by statement *)

\* The server objects that exist at once, at most.
MaxServers == 3

\* self.dtss after del self.dtss: the attribute is gone and reading it raises
\* AttributeError.
Deleted == -1

\* self.dtss can be read and is not None.
Refers == dtss # NoServer /\ dtss # Deleted

\* The server objects left once the reference ref is dropped while the threads
\* hold the references held: an object nothing refers to is destroyed; whether
\* destroying a listening DtsServer releases its listener is not settled by
\* the code, so it may also stay, listening, with nothing referring to it.
dropped(objects, ref, held) ==
    IF ref \notin DOMAIN objects \/ ref \in held
    THEN {objects}
    ELSE {[r \in DOMAIN objects \ {ref} |-> objects[r]]}
         \cup (IF objects[ref].listening THEN {objects} ELSE {})

Held == {threads[t].made : t \in Threads} \ {NoServer}

raise(t, error) ==
    threads' = [threads EXCEPT ![t] = [@ EXCEPT !.pc = "done", !.error = error,
                                                !.made = NoServer]]

log_and_return(t, message) ==
    threads' = [threads EXCEPT ![t] = [@ EXCEPT !.pc = "done", !.log = message]]

goto(t, pc) == threads' = [threads EXCEPT ![t] = [@ EXCEPT !.pc = pc]]

only_threads ==
    UNCHANGED <<data_collection_repositories, dtss_port_num, repos, lastCall, call,
                frames>>

\* A thread calls start or stop.
CallStart(t) ==
    /\ threads[t].pc = "idle"
    /\ threads' = [threads EXCEPT ![t] = [IdleThread EXCEPT !.pc = "test", !.op = "start"]]
    /\ UNCHANGED <<dtss, servers>>
    /\ only_threads

CallStop(t) ==
    /\ threads[t].pc = "idle"
    /\ threads' = [threads EXCEPT ![t] = [IdleThread EXCEPT !.pc = "test", !.op = "stop"]]
    /\ UNCHANGED <<dtss, servers>>
    /\ only_threads

\* start: if self.dtss: logging.info(...) else: ...
StartTest(t) ==
    /\ threads[t].pc = "test" /\ threads[t].op = "start"
    /\ IF dtss = Deleted THEN raise(t, "AttributeError")
       ELSE IF dtss # NoServer THEN log_and_return(t, "already running")
       ELSE goto(t, "make")
    /\ UNCHANGED <<dtss, servers>>
    /\ only_threads

\* start: self.make_server(), the value not yet assigned.
StartMake(t) ==
    /\ threads[t].pc = "make"
    /\ Cardinality(DOMAIN servers) < MaxServers
    /\ LET ref == new_ref(servers)
       IN  /\ servers' = [r \in DOMAIN servers \cup {ref} |->
                            IF r = ref THEN make_server(dtss_port_num)
                            ELSE servers[r]]
           /\ threads' = [threads EXCEPT ![t] =
                            [@ EXCEPT !.pc = "assign", !.made = ref]]
    /\ UNCHANGED dtss
    /\ only_threads

\* start: self.dtss = <the server made>; what self.dtss referred to loses that
\* reference.
StartAssign(t) ==
    /\ threads[t].pc = "assign"
    /\ dtss' = threads[t].made
    /\ threads' = [threads EXCEPT ![t] = [@ EXCEPT !.pc = "start_async",
                                                   !.made = NoServer]]
    /\ servers' \in dropped(servers, dtss, Held)
    /\ only_threads

\* start: logging.info(...); self.dtss.start_async(), on what self.dtss is by
\* now.
StartAsync(t) ==
    /\ threads[t].pc = "start_async"
    /\ IF Refers
       THEN /\ servers' = [servers EXCEPT ![dtss].listening = TRUE]
            /\ log_and_return(t, "start")
       ELSE /\ raise(t, "AttributeError")
            /\ UNCHANGED servers
    /\ UNCHANGED dtss
    /\ only_threads

\* stop: if not self.dtss: logging.info(...) else: ...
StopTest(t) ==
    /\ threads[t].pc = "test" /\ threads[t].op = "stop"
    /\ IF dtss = Deleted THEN raise(t, "AttributeError")
       ELSE IF dtss = NoServer THEN log_and_return(t, "not running")
       ELSE goto(t, "clear")
    /\ UNCHANGED <<dtss, servers>>
    /\ only_threads

\* stop: logging.info(...); self.dtss.clear(), on what self.dtss is by now.
StopClear(t) ==
    /\ threads[t].pc = "clear"
    /\ IF Refers
       THEN /\ servers' = [servers EXCEPT ![dtss].listening = FALSE]
            /\ goto(t, "del")
       ELSE /\ raise(t, "AttributeError")
            /\ UNCHANGED servers
    /\ UNCHANGED dtss
    /\ only_threads

\* stop: del self.dtss
StopDel(t) ==
    /\ threads[t].pc = "del"
    /\ IF dtss = Deleted
       THEN /\ raise(t, "AttributeError")
            /\ UNCHANGED <<dtss, servers>>
       ELSE /\ dtss' = Deleted
            /\ servers' \in dropped(servers, dtss, Held)
            /\ goto(t, "none")
    /\ only_threads

\* stop: self.dtss = None
StopNone(t) ==
    /\ threads[t].pc = "none"
    /\ dtss' = NoServer
    /\ servers' \in dropped(servers, dtss, Held)
    /\ log_and_return(t, "stop")
    /\ only_threads

\* The call is over: the thread may call again.
Finish(t) ==
    /\ threads[t].pc = "done"
    /\ threads' = [threads EXCEPT ![t] = IdleThread]
    /\ UNCHANGED <<dtss, servers>>
    /\ only_threads

NextThreads ==
    \E t \in Threads :
        \/ CallStart(t) \/ CallStop(t)
        \/ StartTest(t) \/ StartMake(t) \/ StartAssign(t) \/ StartAsync(t)
        \/ StopTest(t) \/ StopClear(t) \/ StopDel(t) \/ StopNone(t)
        \/ Finish(t)

SpecThreads == InitCalls /\ [][NextThreads]_vars

----------------------------------------------------------------------------
(* What the claims speak of *)

\* The url has a scheme that is a key of the registry.
Registered(url) == urlparse_scheme(url) \in DOMAIN repos

\* The url holds no scheme delimiter.
NoDelimiter(url) == ":" \notin Range(url)

\* The positions of a batch whose identifier has the scheme `name`.
PositionsOf(ts_ids, name) ==
    {i \in 1..Len(ts_ids) : urlparse_scheme(ts_ids[i]) = name}

\* The calls of `method` the callback being answered made on repository `name`.
CallsOn(name, method) ==
    {k \in 1..Len(call.outcome.invocations) :
        /\ call.outcome.invocations[k].repo.name = name
        /\ call.outcome.invocations[k].method = method}

\* The time series the owning repository produces for position i of the batch:
\* the one for the identifier's place among the identifiers of its scheme.
HandleFor(ts_ids, i, read_period) ==
    LET name == urlparse_scheme(ts_ids[i])
    IN  TimeSeries(repos[name], ts_ids[i],
                   Cardinality({j \in PositionsOf(ts_ids, name) : j < i}), read_period)

\* During the read being answered every repository asked kept its interface.
RepositoriesAnswerInOrder ==
    call.fault = NoFault \/ PositionsOf(call.ts_ids, call.fault.repo) = {}

\* During the read being answered a repository that was asked raised.
RepositoryRaised ==
    /\ call.fault.kind = "raises"
    /\ CallsOn(call.fault.repo, "read_callback") # {}

WellRouted == \A i \in 1..Len(call.ts_ids) : Registered(call.ts_ids[i])

----------------------------------------------------------------------------
(* Claims *)

\* C1: a read of a batch whose identifiers all have a registered scheme, with
\* repositories that return one time series per identifier in the order given,
\* returns as many time series as identifiers, the i-th being the one the
\* owning repository produced for the i-th identifier.
C1_ReadKeepsOrder ==
    (call.op = "read" /\ WellRouted /\ RepositoriesAnswerInOrder) =>
        /\ call.outcome.returned
        /\ Len(call.outcome.value) = Len(call.ts_ids)
        /\ \A i \in 1..Len(call.ts_ids) :
              call.outcome.value[i] = HandleFor(call.ts_ids, i, call.read_period)

\* C1 witness: a read answered for a batch of interleaved schemes with an
\* identifier repeated.
C1_Witness ==
    /\ call.op = "read"
    /\ call.outcome.returned
    /\ call.fault = NoFault
    /\ Len(call.ts_ids) = 3
    /\ call.ts_ids[1] = call.ts_ids[3]
    /\ urlparse_scheme(call.ts_ids[1]) # urlparse_scheme(call.ts_ids[2])

\* C2 as stated: during a read every repository is asked exactly once if an
\* identifier of the batch has its scheme and not at all otherwise.
C2_OnceIfRouted ==
    call.op = "read" =>
        \A name \in DOMAIN repos :
            Cardinality(CallsOn(name, "read_callback")) =
                IF PositionsOf(call.ts_ids, name) # {} THEN 1 ELSE 0

\* C2 amended: during a read that returns, every repository is asked exactly
\* once if an identifier of the batch has its scheme and not at all otherwise;
\* during a read that raises, no repository is asked more than once, none that
\* no identifier routes to, and none at all when the error is DtssHostError.
C2_OnceIfRoutedWhenReturned ==
    call.op = "read" =>
      /\ call.outcome.error.type = "DtssHostError" => call.outcome.invocations = << >>
      /\ \A name \in DOMAIN repos :
            /\ call.outcome.returned =>
                  Cardinality(CallsOn(name, "read_callback")) =
                      IF PositionsOf(call.ts_ids, name) # {} THEN 1 ELSE 0
            /\ Cardinality(CallsOn(name, "read_callback")) <= 1
            /\ PositionsOf(call.ts_ids, name) = {} => CallsOn(name, "read_callback") = {}

\* C2 witness: a read answered in which two identifiers went to one repository
\* and a registered repository got none.
C2_Witness ==
    /\ call.op = "read"
    /\ call.outcome.returned
    /\ \E name \in DOMAIN repos :
          /\ Cardinality(PositionsOf(call.ts_ids, name)) >= 2
          /\ Cardinality(CallsOn(name, "read_callback")) = 1
    /\ \E name \in DOMAIN repos : PositionsOf(call.ts_ids, name) = {}

\* C3: a read of a batch holding an identifier whose scheme is not registered
\* raises DtssHostError and returns nothing, wherever that identifier stands.
C3_UnknownSchemeFailsBatch ==
    (call.op = "read" /\ ~WellRouted) =>
        /\ ~call.outcome.returned
        /\ call.outcome.error.type = "DtssHostError"
        /\ call.outcome.value = None

\* C3 witness: a read that failed on an unknown scheme at the last position,
\* after identifiers of registered schemes.
C3_Witness ==
    /\ call.op = "read"
    /\ Len(call.ts_ids) = 3
    /\ Registered(call.ts_ids[1]) /\ Registered(call.ts_ids[2])
    /\ urlparse_scheme(call.ts_ids[3]) \notin DOMAIN repos \cup {<< >>}
    /\ call.outcome.error.type = "DtssHostError"

\* C4 as stated: an identifier without delimiter in a read batch makes the call
\* fail with InvalidIdentifierError, a kind other than that of an unknown
\* scheme, with no repository asked.
C4_NoDelimiterIsInvalidIdentifier ==
    (call.op = "read" /\ \E i \in 1..Len(call.ts_ids) : NoDelimiter(call.ts_ids[i])) =>
        /\ ~call.outcome.returned
        /\ call.outcome.error.type = "InvalidIdentifierError"
        /\ call.outcome.invocations = << >>

\* C4 amended: an identifier without delimiter in a read batch makes the call
\* fail with DtssHostError, the error of an unknown scheme (the scheme parsed
\* is the empty one), with no repository asked.
C4_NoDelimiterIsUnknownScheme ==
    (call.op = "read" /\ \E i \in 1..Len(call.ts_ids) : NoDelimiter(call.ts_ids[i])) =>
        /\ ~call.outcome.returned
        /\ call.outcome.error.type = "DtssHostError"
        /\ call.outcome.error.scheme \notin DOMAIN repos
        /\ (\A i \in 1..Len(call.ts_ids) : Registered(call.ts_ids[i]) \/ NoDelimiter(call.ts_ids[i]))
              => call.outcome.error = DtssHostError(<< >>, DOMAIN repos)
        /\ call.outcome.invocations = << >>

\* C4 witness: a read that failed on an identifier without delimiter standing
\* after an identifier of a registered scheme.
C4_Witness ==
    /\ call.op = "read"
    /\ Len(call.ts_ids) >= 2
    /\ Registered(call.ts_ids[1])
    /\ NoDelimiter(call.ts_ids[2])
    /\ call.outcome.error.type = "DtssHostError"
    /\ call.outcome.error.scheme = << >>

\* C5 as stated: when a repository raises during a read, the call still
\* returns, with the time series of the other repositories at their positions.
C5_RepositoryFailureTolerated ==
    (call.op = "read" /\ WellRouted /\ RepositoryRaised) =>
        /\ call.outcome.returned
        /\ Len(call.outcome.value) = Len(call.ts_ids)
        /\ \A i \in 1..Len(call.ts_ids) :
              urlparse_scheme(call.ts_ids[i]) # call.fault.repo =>
                  call.outcome.value[i] = HandleFor(call.ts_ids, i, call.read_period)

\* C5 amended: when a repository raises during a read, the exception leaves
\* read_callback: the call returns nothing, for any position, and the
\* repository that raised is the last one asked.
C5_RepositoryFailureFailsBatch ==
    (call.op = "read" /\ WellRouted /\ RepositoryRaised) =>
        /\ ~call.outcome.returned
        /\ call.outcome.error = RepositoryError
        /\ call.outcome.value = None
        /\ call.outcome.invocations[Len(call.outcome.invocations)].repo.name
              = call.fault.repo

\* C5 witness: a read in which the second of two repositories asked raised.
C5_Witness ==
    /\ call.op = "read"
    /\ RepositoryRaised
    /\ Len(call.outcome.invocations) = 2
    /\ ~call.outcome.returned

\* C6: after any start and stop calls there is at most one listener and the
\* host is running exactly when the last call was start; start on a running
\* host and stop on a stopped host only log and change nothing.
C6_StartStopIdempotent ==
    /\ [](/\ Cardinality(Listeners) \in {0, 1}
          /\ Listeners # {} => Running
          /\ lastCall.op = "start" => Running
          /\ lastCall.op \in {"none", "stop"} => ~Running)
    /\ [][/\ (start /\ Running) =>
                /\ UNCHANGED <<dtss, servers>>
                /\ lastCall'.log = "already running"
          /\ (stop /\ ~Running) =>
                /\ UNCHANGED <<dtss, servers>>
                /\ lastCall'.log = "not running"]_vars

\* C6 witness: start was called on a running host, which has one listener.
C6_Witness ==
    /\ lastCall = [op |-> "start", log |-> "already running"]
    /\ Cardinality(Listeners) = 1

\* C7 as stated: while the host is running the read and the find operation are
\* both bound as callbacks of its server; after stop no server is left.
C7_ReadAndFindBound ==
    /\ Running =>
          /\ servers[dtss].cb = "read_callback"
          /\ servers[dtss].find_cb = "find_callback"
    /\ lastCall.op = "stop" => (dtss = NoServer /\ DOMAIN servers = {})

\* C7 amended: while the host is running the read operation is bound as the
\* callback of its server and no find callback is bound; after stop no server
\* is left.
C7_OnlyReadBound ==
    /\ Running =>
          /\ servers[dtss].cb = "read_callback"
          /\ servers[dtss].find_cb = "None"
    /\ lastCall.op = "stop" => (dtss = NoServer /\ DOMAIN servers = {})

\* C7 witness: the host runs the server a start call made.
C7_Witness ==
    /\ Running
    /\ lastCall = [op |-> "start", log |-> "start"]
    /\ servers[dtss].cb = "read_callback"

\* The items name a known repository type twice.
HasDuplicateScheme(items) ==
    \E i, j \in 1..Len(items) :
        /\ i < j
        /\ items[i][1] = items[j][1]
        /\ items[i][1] \in DOMAIN _DEFAULT_DATA_COLLECTION_REPO_TYPE_LOOKUP

C9_FindAsksOwningRepository ==
    (call.op = "find" /\ Registered(call.query)) =>
        LET repo == repos[urlparse_scheme(call.query)]
            answer == repo_find_callback(repo, call.query, call.fault)
        IN  /\ call.outcome.invocations =
                  << Invocation(repo, "find_callback", << >>, call.query, None) >>
            /\ ~answer.raised =>
                  /\ call.outcome.returned
                  /\ call.outcome.value = answer.value

\* C9 witness: a find answered by one of several registered repositories.
C9_Witness ==
    /\ call.op = "find"
    /\ Registered(call.query)
    /\ Cardinality(DOMAIN repos) >= 2
    /\ call.outcome.returned
    /\ Len(call.outcome.invocations) = 1

\* C10: a find whose query has a scheme that is not registered raises
\* DtssHostError, the error a read of that one url raises, and asks no
\* repository; find and read raise it on unregistered schemes only.
C10_FindUnknownScheme ==
    /\ (call.op = "find" /\ ~Registered(call.query)) =>
          /\ ~call.outcome.returned
          /\ call.outcome.error.type = "DtssHostError"
          /\ call.outcome.invocations = << >>
          /\ \A read_period \in Periods :
                call.outcome.error =
                    read_callback(repos, <<call.query>>, read_period, NoFault).error
    /\ (call.op = "find" /\ Registered(call.query)) =>
          call.outcome.error.type # "DtssHostError"
    /\ (call.op = "read" /\ WellRouted) =>
          call.outcome.error.type # "DtssHostError"

\* C10 witness: a find of a query with an unknown scheme failed on a host with
\* repositories registered.
C10_Witness ==
    /\ call.op = "find"
    /\ urlparse_scheme(call.query) \notin DOMAIN repos \cup {<< >>}
    /\ DOMAIN repos # {}
    /\ call.outcome.error.type = "DtssHostError"

\* The keys of data of the read being answered: the schemes of the batch.
SchemesOf(ts_ids) == {urlparse_scheme(ts_ids[i]) : i \in 1..Len(ts_ids)}

\* C11: whatever the order in which the repositories of a read batch are asked
\* and answer, read_callback returns the same sequence (or raises the same
\* error): the one it returned, ordered by input position.
C11_OrderOfRepositoriesIrrelevant ==
    (call.op = "read" /\ WellRouted) =>
        \A order \in Orders(Cardinality(SchemesOf(call.ts_ids))) :
            LET other == read_in_order(repos, call.ts_ids, call.read_period,
                                       call.fault, order)
            IN  /\ other.returned = call.outcome.returned
                /\ other.value = call.outcome.value
                /\ other.error = call.outcome.error
                /\ (other.returned /\ RepositoriesAnswerInOrder) =>
                      \A i \in 1..Len(call.ts_ids) : other.value[i].ts_id = call.ts_ids[i]

\* C11 witness: a read answered for three repositories, asked in the order of
\* their first identifier, which another order would ask differently.
C11_Witness ==
    /\ call.op = "read"
    /\ call.outcome.returned
    /\ call.fault = NoFault
    /\ Cardinality(SchemesOf(call.ts_ids)) = 3
    /\ \E order \in Orders(3) :
          read_in_order(repos, call.ts_ids, call.read_period, call.fault,
                        order).invocations # call.outcome.invocations

\* The class registered in the lookup under each repository type name.
ClassOf(name) ==
    CASE name = NetatmoName -> "NetatmoRepository"
      [] name = Mock1Name -> "MockRepository1"
      [] name = Mock2Name -> "MockRepository2"

KnownNames == {NetatmoName, Mock1Name, Mock2Name}

\* C12: the keys of the registry are the configured names that are repository
\* types; each such configuration entry gave the one repository under its
\* name, made from its configuration, and the other entries gave nothing.
C12_RegistryFromConfiguration ==
    LET items == data_collection_repositories
    IN  /\ DOMAIN repos = {items[i][1] : i \in 1..Len(items)} \cap KnownNames
        /\ \A i \in 1..Len(items) :
              items[i][1] \in KnownNames =>
                  repos[items[i][1]] = [cls |-> ClassOf(items[i][1]),
                                        name |-> items[i][1],
                                        config |-> items[i][2]]

\* C12 witness: a host built from a configuration that names two repository
\* types and, between them, a name that is none.
C12_Witness ==
    /\ \E i \in 1..Len(data_collection_repositories) :
          /\ data_collection_repositories[i][1] \notin KnownNames
          /\ i > 1
          /\ i < Len(data_collection_repositories)
    /\ Cardinality(DOMAIN repos) = 2

\* The first url of the request being answered whose scheme is not registered.
Offending ==
    IF call.op = "find" THEN call.query
    ELSE call.ts_ids[CHOOSE i \in 1..Len(call.ts_ids) :
                        /\ ~Registered(call.ts_ids[i])
                        /\ \A j \in 1..(i - 1) : Registered(call.ts_ids[j])]

\* C14: the error raised for a scheme that is not registered names that scheme
\* and the schemes registered, all of them and no other.
C14_ErrorListsRegisteredSchemes ==
    (call.op \in {"read", "find"} /\ call.outcome.error.type = "DtssHostError") =>
        /\ call.outcome.error.scheme = urlparse_scheme(Offending)
        /\ call.outcome.error.available = DOMAIN repos
        /\ call.outcome.error.available =
              {data_collection_repositories[i][1] :
                  i \in 1..Len(data_collection_repositories)} \cap KnownNames

\* C14 witness: a read that failed on a scheme that is a repository type but
\* is not registered, on a host with two repositories.
C14_Witness ==
    /\ call.op = "read"
    /\ call.outcome.error.type = "DtssHostError"
    /\ call.outcome.error.scheme \in KnownNames
    /\ Cardinality(call.outcome.error.available) = 2

\* The identifiers of a batch that have the scheme `name`, in batch order.
IdsOf(ts_ids, name) ==
    LET HasScheme(url) == urlparse_scheme(url) = name
    IN  SelectSeq(ts_ids, HasScheme)

\* C15: every repository call of a read passes the identifiers of the batch
\* that have the repository's scheme, in batch order with repeats kept, and the
\* read period of the call.
C15_SubBatchInInputOrder ==
    call.op = "read" =>
        \A k \in 1..Len(call.outcome.invocations) :
            LET made == call.outcome.invocations[k]
            IN  /\ made.method = "read_callback"
                /\ made.repo = repos[made.repo.name]
                /\ made.ts_ids = IdsOf(call.ts_ids, made.repo.name)
                /\ made.ts_ids # << >>
                /\ made.read_period = call.read_period

\* C15 witness: a read in which a repository was given two different
\* identifiers that stood apart in the batch.
C15_Witness ==
    /\ call.op = "read"
    /\ Len(call.ts_ids) = 3
    /\ urlparse_scheme(call.ts_ids[1]) = urlparse_scheme(call.ts_ids[3])
    /\ urlparse_scheme(call.ts_ids[1]) # urlparse_scheme(call.ts_ids[2])
    /\ call.ts_ids[1] # call.ts_ids[3]
    /\ Len(call.outcome.invocations) = 2
    /\ call.outcome.invocations[1].ts_ids = <<call.ts_ids[1], call.ts_ids[3]>>

\* C16: the registry stays the one the constructor built from the
\* configuration, whatever is called and however it ends, and a read or a find
\* leaves the server and the lifecycle as they were.
C16_RegistryAndLifecycleKept ==
    /\ [](repos = build_repos(data_collection_repositories))
    /\ [][/\ repos' = repos
          /\ data_collection_repositories' = data_collection_repositories
          /\ (call' # call /\ call'.op \in {"read", "find"}) =>
                UNCHANGED <<dtss, servers, lastCall>>]_vars

\* C16 witness: a read has failed on a running host that had been stopped and
\* started again.
C16_Witness ==
    /\ call.op = "read"
    /\ ~call.outcome.returned
    /\ Running
    /\ lastCall = [op |-> "start", log |-> "start"]
    /\ DOMAIN repos # {}

\* What the callback of a frame returns or raises when it runs alone.
Alone(frame) ==
    IF frame.op = "read"
    THEN read_callback(repos, frame.ts_ids, frame.read_period, frame.fault)
    ELSE find_callback(repos, frame.query, frame.fault)

\* C13: callbacks that run side by side, their steps interleaved in any way,
\* each end as they would running alone, and the registry is only read.
C13_ConcurrentCallsIndependent ==
    /\ \A c \in Callers :
          frames[c].pc = "done" => frames[c].outcome = Alone(frames[c])
    /\ repos = build_repos(data_collection_repositories)

\* C13 witness: a read has returned for a batch of two schemes while another
\* read, of other identifiers, has grouped one identifier and not yet asked.
C13_Witness ==
    \E c, d \in Callers :
        /\ c # d
        /\ frames[c].pc = "done" /\ frames[c].op = "read"
        /\ frames[c].outcome.returned
        /\ Len(frames[c].data) = 2
        /\ frames[d].pc = "group" /\ frames[d].enum = 1
        /\ frames[d].ts_ids # frames[c].ts_ids

\* C17: a read asks no repository before it has resolved the scheme of every
\* identifier of the batch; one that fails on a scheme has asked none.
C17_ResolveBeforeAsking ==
    \A c \in Callers :
        frames[c].op = "read" =>
            /\ frames[c].invocations # << >> =>
                  /\ frames[c].enum = Len(frames[c].ts_ids)
                  /\ \A i \in 1..Len(frames[c].ts_ids) : Registered(frames[c].ts_ids[i])
            /\ (frames[c].pc = "done" /\ frames[c].outcome.error.type = "DtssHostError") =>
                  /\ frames[c].invocations = << >>
                  /\ frames[c].outcome.invocations = << >>
            /\ frames[c].pc = "done" => frames[c].outcome.invocations = frames[c].invocations

\* C17 witness: a read has failed on its last identifier, after resolving an
\* identifier of a registered scheme, with no repository asked.
C17_Witness ==
    \E c \in Callers :
        /\ frames[c].op = "read"
        /\ frames[c].pc = "done"
        /\ frames[c].outcome.error.type = "DtssHostError"
        /\ Len(frames[c].ts_ids) >= 2
        /\ frames[c].enum = Len(frames[c].ts_ids) - 1
        /\ frames[c].invocations = << >>

\* C18: however start and stop calls of several threads interleave, at most
\* one server is listening, every listening server is the one self.dtss refers
\* to, and the host never has two servers at once.
C18_OneListenerUnderThreads ==
    /\ Cardinality(Listeners) <= 1
    /\ \A r \in Listeners : dtss = r
    /\ Cardinality(DOMAIN servers) <= 1

====
